---------------------------- MODULE Spec2Model ----------------------------
(***************************************************************************)
(* A model of the front end of the booking application: the five copies   *)
(* of the chat handler (handleSend / handleInputChange), the conversation  *)
(* log they build, the /chat requests they issue and the renderer of the   *)
(* log; the dashboard page with its bookings list and logout; the auth     *)
(* page; the middleware and the token cookie that tie them together.       *)
(*                                                                         *)
(* JavaScript values that come from the network are modelled as tagged     *)
(* records (JString, JObject, JNull); a JavaScript object is a function    *)
(* from the keys it has to their values, so a key that is absent and a key *)
(* that is undefined are the same thing.                                   *)
(***************************************************************************)
EXTENDS Naturals, Sequences, FiniteSets, TLC

\* ------------------------------------------------------------------ bounds

\* Accepted submissions (handleSend calls that pass the trim guard) per run.
MaxSubmits == 2

\* Clicks on the Show/Hide My Bookings button per run.
MaxClicks == 2

\* Submissions of the login/signup form per run.
MaxAuthSubmits == 2

\* ------------------------------------------------------------- JS values

EmptyObject == [k \in {} |-> k]

JNull == [type |-> "null"]

JUndefined == [type |-> "undefined"]

JString(s) == [type |-> "string", value |-> s]

JNumber(n) == [type |-> "number", value |-> n]

JObject(f) == [type |-> "object", value |-> f]

JArray(s) == [type |-> "array", value |-> s]

\* if (j): null, undefined and the empty string are falsy.
Truthy(j) ==
  /\ j.type \notin {"null", "undefined"}
  /\ j.type = "string" => j.value # <<>>

\* `${j}` and "..." + j: the string a value is turned into.
Stringify(j) ==
  CASE j.type = "string" -> j.value
    [] j.type = "undefined" -> <<"undefined">>
    [] j.type = "null" -> <<"null">>
    [] OTHER -> <<"[object Object]">>

\* Reading a property of null or undefined throws a TypeError.
Throws(j) == j.type \in {"null", "undefined"}

\* j.key for a value j on which the read does not throw: a primitive has no
\* own properties, an object yields the value or undefined.
Get(j, key) ==
  IF j.type = "object" /\ key \in DOMAIN j.value THEN j.value[key] ELSE JUndefined

\* { key: j } as it ends up in an object literal: nothing when j is undefined.
Field(key, j) == IF j.type = "undefined" THEN EmptyObject ELSE key :> j

\* ---------------------------------------------------------------- strings

\* A string is a sequence of characters (or of longer pieces, for the fixed
\* texts of the program and of the server).
\* String.prototype.trim: drop leading and trailing white space.
RECURSIVE TrimStart(_)
TrimStart(s) ==
  IF s = <<>> THEN <<>>
  ELSE IF Head(s) = " " THEN TrimStart(Tail(s)) ELSE s

RECURSIVE TrimEnd(_)
TrimEnd(s) ==
  IF s = <<>> THEN <<>>
  ELSE IF s[Len(s)] = " " THEN TrimEnd(SubSeq(s, 1, Len(s) - 1)) ELSE s

Trim(s) == TrimEnd(TrimStart(s))

\* The values e.target.value takes in the model.
InputValues == {<<>>, <<" ">>, <<"a">>, <<" ", "b">>}

\* ------------------------------------------------------- the chat variants

\* Chat          frontend/src/components/Chat.tsx
\* ChatMarkdown  unnamed/part_000 (markdown, clears the input at submit and
\*               restores it on failure)
\* DashboardPage unnamed/part_002 (chat inlined in the dashboard page)
\* Home          unnamed/part_001 (typed messages, no token)
\* HomePlain     frontend/src/app/page.tsx (messages are {sender, text})
Variants == {"Chat", "ChatMarkdown", "DashboardPage", "Home", "HomePlain"}

RestoresInput(v) == v = "ChatMarkdown"

TypedMessages(v) == v # "HomePlain"

ErrorText == <<"Error processing request.">>

GreetingText == <<"Hello! How can I help you today?">>

\* useState initial value of messages.
InitialMessages(v) ==
  IF v = "HomePlain" THEN <<>>
  ELSE << [sender |-> "System", text |-> JString(GreetingText),
           messageType |-> JString("text")] >>

\* const userMessage = { sender: "User", text: input, messageType: "text" }
UserMessage(v, text) ==
  IF TypedMessages(v)
  THEN [sender |-> "User", text |-> JString(text), messageType |-> JString("text")]
  ELSE [sender |-> "User", text |-> JString(text)]

\* A catch block copied from the untyped page: the message has no messageType.
ErrorMessageUntyped(v) == [sender |-> "System", text |-> JString(ErrorText)]

\* The message of the catch block.
ErrorMessage(v) ==
  IF TypedMessages(v)
  THEN [sender |-> "System", text |-> JString(ErrorText),
        messageType |-> JString("error")]
  ELSE [sender |-> "System", text |-> JString(ErrorText)]

\* setMessages((prev) => [m, ...prev]): the new message put first.
SpreadPrepend(prev, m) == <<m>> \o prev

\* setMessages((prev) => [...prev, m])
SpreadAppend(prev, m) == prev \o <<m>>

\* ------------------------------------------------------------ the server

\* A body that is not JSON: response.json() rejects.
NotJson == [type |-> "invalid"]

FullDetails ==
  JObject([id |-> JNumber(1), service |-> JString(<<"Gardener">>),
           technician |-> JString(<<"John Doe">>),
           datetime |-> JString(<<"2022-10-20T17:00:00">>)])

\* { text, message_type, details? } objects a server may put under "response".
Replies ==
  { [text |-> JString(<<"ok">>), message_type |-> JString("text")],
    [text |-> JString(<<"**ok**">>), message_type |-> JString("markdown")],
    [text |-> JString(<<"booked">>), message_type |-> JString("booking_details"),
     details |-> FullDetails],
    [text |-> JString(<<"booked">>), message_type |-> JString("booking_details")],
    [text |-> JString(<<"failed">>), message_type |-> JString("error"),
     details |-> FullDetails],
    [text |-> JString(<<"ok">>), message_type |-> JString("refund")] }

\* The bodies a /chat response may carry: not JSON, null, {} (such as an
\* error body without "response"), the untyped reply {response: "..."} of
\* the first server, which is also a typed reply without text and
\* message_type, and the typed replies.
Bodies ==
  { NotJson, JNull, JObject(EmptyObject),
    JObject([response |-> JString(<<"hello">>)]) }
  \cup { JObject([response |-> JObject(r)]) : r \in Replies }

\* ------------------------------------------------------------ handleSend

\* What one run of a part of handleSend does: the messages it appends with
\* setMessages, the requests it issues with fetch and the value it passes to
\* setInput (a sequence: empty when setInput is not called).
Effects(append, fetch, set) == [append |-> append, fetch |-> fetch, setInput |-> set]

\* The chat components that are given the token getter of the dashboard.
UsesToken(v) == v \in {"Chat", "ChatMarkdown", "DashboardPage"}

\* ...(getToken() ? { Authorization: `Bearer ${getToken()}` } : {})
ChatHeaders(v, token) ==
  IF UsesToken(v) /\ Truthy(token)
  THEN [authorization |-> <<"Bearer ">> \o Stringify(token)]
  ELSE EmptyObject

\* handleSend with the guard `if (!input) return`: no trim.
SubmitEffectsNoTrim(v, input, token) ==
  IF input = <<>>
  THEN Effects(<<>>, <<>>, <<>>)
  ELSE Effects(<<UserMessage(v, input)>>,
               <<[path |-> "/chat", message |-> input] @@ ChatHeaders(v, token)>>,
               IF RestoresInput(v) THEN << <<>> >> ELSE <<>>)

\* From the call to the first await: the guard, the User message, the fetch
\* with the token that getToken reads at the call.
SubmitEffects(v, input, token) ==
  IF Trim(input) = <<>>
  THEN Effects(<<>>, <<>>, <<>>)
  ELSE Effects(<<UserMessage(v, input)>>,
               <<[path |-> "/chat", message |-> input] @@ ChatHeaders(v, token)>>,
               IF RestoresInput(v) THEN << <<>> >> ELSE <<>>)

\* A catch block that only logs: no message is appended.
CatchEffectsSilent(v, previousInput) ==
  Effects(<<>>, <<>>, IF RestoresInput(v) THEN <<previousInput>> ELSE << <<>> >>)

\* A catch block that sends the message again.
CatchEffectsRetry(v, previousInput) ==
  Effects(<<ErrorMessage(v)>>, <<[path |-> "/chat", message |-> previousInput]>>,
          IF RestoresInput(v) THEN <<previousInput>> ELSE << <<>> >>)

\* The catch block, then the statement after try/catch.
CatchEffects(v, previousInput) ==
  Effects(<<ErrorMessage(v)>>, <<>>,
          IF RestoresInput(v) THEN <<previousInput>> ELSE << <<>> >>)

\* The system message built from the parsed body; <<>> when building it throws.
SystemMessage(v, data) ==
  IF TypedMessages(v)
  THEN IF Throws(data) \/ Throws(Get(data, "response"))
       THEN <<>>
       ELSE LET r == Get(data, "response")
            IN << [sender |-> "System"] @@ Field("text", Get(r, "text"))
                    @@ Field("messageType", Get(r, "message_type"))
                    @@ Field("details", Get(r, "details")) >>
  ELSE IF Throws(data)
       THEN <<>>
       ELSE << [sender |-> "System"] @@ Field("text", Get(data, "response")) >>

\* A handleSend that ends with setInput("") in every variant.
BodyEffectsClears(v, previousInput, body) ==
  IF body = NotJson \/ SystemMessage(v, body) = <<>>
  THEN CatchEffects(v, previousInput)
  ELSE Effects(SystemMessage(v, body), <<>>, << <<>> >>)

\* From the resolution of fetch to the end of handleSend: response.json(),
\* the system message, the catch block when either throws.
BodyEffects(v, previousInput, body) ==
  IF body = NotJson \/ SystemMessage(v, body) = <<>>
  THEN CatchEffects(v, previousInput)
  ELSE Effects(SystemMessage(v, body), <<>>,
               IF RestoresInput(v) THEN <<>> ELSE << <<>> >>)

\* fetch rejected: the catch block runs.
RejectEffects(v, previousInput) == CatchEffects(v, previousInput)

\* --------------------------------------------------- cookie and bookings

\* The token cookie: <<>> when there is none, <<value>> when there is one.
NoCookie == <<>>

\* The access tokens of the model: plain, and with the separator in it.
Tokens == {<<"x">>, <<"x", "=", "y">>}

\* s.split("=")[0]: s up to its first "=".
RECURSIVE UpToEquals(_)
UpToEquals(s) ==
  IF s = <<>> \/ Head(s) = "=" THEN <<>> ELSE <<Head(s)>> \o UpToEquals(Tail(s))

\* safeGetToken on document.cookie = "token=<value>": the second piece of
\* the cookie split at "=", null without a token cookie.
safeGetToken(c) ==
  IF c = NoCookie THEN JNull ELSE JString(UpToEquals(c[1]))

Booking1 ==
  JObject([id |-> JNumber(1), service |-> JString(<<"Gardener">>),
           technician_name |-> JString(<<"John Doe">>),
           booking_datetime |-> JString(<<"2022-10-20T17:00:00">>)])

\* The body of the 401 the server sends for an expired or invalid token.
Unauthorized == JObject([detail |-> JString(<<"Could not validate credentials">>)])

\* The bodies of /chat responses on the dashboard: the body of a 401 and a
\* text reply.
DashboardChatBodies ==
  { Unauthorized,
    JObject([response |-> JObject([text |-> JString(<<"ok">>),
                                   message_type |-> JString("text")])]) }

\* The bodies a /my-bookings response may carry.
BookingsBodies ==
  { NotJson, JArray(<<>>), JArray(<<Booking1>>), Unauthorized }

\* The body of the 422 of the server's request validation: detail is a list.
ValidationError ==
  JObject([detail |->
    JArray(<< JObject([msg |-> JString(<<"field required">>)]) >>)])

\* The bodies a /login or /signup response may carry.
AuthBodies ==
  { NotJson, JNull, JObject(EmptyObject), ValidationError,
    JObject([detail |-> JString(<<"Incorrect username or password">>)]) }
  \cup { JObject([access_token |-> JString(t)]) : t \in Tokens }

\* ----------------------------------------------------------------- state

VARIABLES
  variant,       \* which copy of the chat component is mounted
  input,         \* useState input
  messages,      \* useState messages: the conversation log
  calls,         \* handleSend runs suspended at an await: id -> its closure
  appendedBy,    \* for every setMessages append so far, in order, the run it is from
  accepted,      \* handleSend calls whose input had a non-empty trimmed form
  copies,        \* chat components side by side, given the same events
  bookings,      \* useState bookings
  showBookings,  \* useState showBookings
  bookingsCalls, \* handleShowBookings runs suspended at an await
  clicks,        \* handleShowBookings calls so far
  authMode,      \* useState authMode
  authCalls,     \* handleAuthSubmit runs suspended at an await
  authSubmits,   \* handleAuthSubmit calls so far
  cookie,        \* the token cookie of document.cookie
  location,      \* the page the router was last sent to
  loading,       \* useState loading of that page: its mount effect has not passed
  alerts,        \* the texts shown with alert(), in order
  requests,      \* every fetch issued so far, in order (the network's view)
  event          \* the step taken last: its kind and the handler run it belongs to

chatVars == <<variant, input, messages, calls, appendedBy, accepted, copies>>

dashboardVars == <<bookings, showBookings, bookingsCalls, clicks>>

authVars == <<authMode, authCalls, authSubmits>>

browserVars == <<cookie, location, loading, alerts>>

vars == <<chatVars, dashboardVars, authVars, browserVars, requests, event>>

\* A chat component just mounted.
ChatMounted(variants) ==
  /\ variant \in variants
  /\ input = <<>>
  /\ messages = InitialMessages(variant)
  /\ calls = EmptyObject
  /\ appendedBy = [i \in 1..Len(InitialMessages(variant)) |-> 0]
  /\ accepted = 0
  /\ copies = EmptyObject

\* The bookings state of a dashboard page just mounted.
DashboardMounted ==
  /\ bookings = JArray(<<>>)
  /\ showBookings = FALSE
  /\ bookingsCalls = EmptyObject
  /\ clicks = 0

\* An auth page just mounted.
AuthMounted ==
  /\ authMode = "login"
  /\ authCalls = EmptyObject
  /\ authSubmits = 0

\* A chat component of any variant, with no session.
Init ==
  /\ ChatMounted(Variants)
  /\ DashboardMounted
  /\ AuthMounted
  /\ cookie = NoCookie
  /\ location = "/"
  /\ loading = FALSE
  /\ alerts = <<>>
  /\ requests = <<>>
  /\ event = [kind |-> "mount", id |-> 0]

\* React applies the queued setMessages updaters in order.
RECURSIVE SetMessages(_, _)
SetMessages(prev, ms) ==
  IF ms = <<>> THEN prev ELSE SetMessages(SpreadAppend(prev, Head(ms)), Tail(ms))

\* The state after a part of run `id` of handleSend has had effects eff.
Apply(eff, id) ==
  /\ messages' = SetMessages(messages, eff.append)
  /\ appendedBy' = appendedBy \o [i \in 1..Len(eff.append) |-> id]
  /\ requests' = requests \o [i \in 1..Len(eff.fetch) |->
                                eff.fetch[i] @@ [by |-> id]]
  /\ input' = IF eff.setInput = <<>> THEN input ELSE eff.setInput[1]
  /\ UNCHANGED <<copies, dashboardVars, authVars, browserVars>>

Without(f, id) == [k \in DOMAIN f \ {id} |-> f[k]]

\* handleInputChange: the user edits the text field.
Type(value) ==
  /\ value # input
  /\ input' = value
  /\ event' = [kind |-> "type", id |-> 0]
  /\ UNCHANGED <<variant, messages, calls, requests, appendedBy, accepted>>
  /\ UNCHANGED <<copies, dashboardVars, authVars, browserVars>>

\* The form is submitted: handleSend runs up to its first await.
Submit ==
  LET id == accepted + 1
      eff == SubmitEffects(variant, input, safeGetToken(cookie))
  IN /\ Trim(input) # <<>> => accepted < MaxSubmits
     /\ Apply(eff, id)
     /\ accepted' = IF Trim(input) # <<>> THEN id ELSE accepted
     /\ calls' = IF eff.fetch = <<>> THEN calls
                 ELSE calls @@ (id :> [previousInput |-> input])
     /\ event' = [kind |-> "submit", id |-> IF Trim(input) = <<>> THEN 0 ELSE id]
     /\ UNCHANGED variant

\* The fetch of run id rejects (transport failure): the catch block runs.
FetchReject(id) ==
  /\ Apply(RejectEffects(variant, calls[id].previousInput), id)
  /\ calls' = Without(calls, id)
  /\ event' = [kind |-> "reject", id |-> id]
  /\ UNCHANGED <<variant, accepted>>

\* The fetch of run id resolves with a response of some status and
\* response.json() settles on its body; the run finishes. handleSend reads
\* and writes nothing between its two awaits, so they are one step, and it
\* never reads the status: ok changes nothing.
FetchResolve(id, ok, body) ==
  /\ Apply(BodyEffects(variant, calls[id].previousInput, body), id)
  /\ calls' = Without(calls, id)
  /\ event' = [kind |-> "response", id |-> id]
  /\ UNCHANGED <<variant, accepted>>

Next ==
  \/ \E value \in InputValues : Type(value)
  \/ Submit
  \/ \E id \in DOMAIN calls : FetchReject(id)
  \/ \E id \in DOMAIN calls, ok \in BOOLEAN, body \in Bodies :
       FetchResolve(id, ok, body)

Spec == Init /\ [][Next]_vars

\* ------------------------------------------------- the variants side by side

\* The three chat components that send the token: Chat.tsx, the chat inlined
\* in the dashboard page of part_002, the chat of part_000.
ChatCopies == {"Chat", "DashboardPage", "ChatMarkdown"}

\* The bodies of the /chat responses given to the components side by side.
CopyBodies ==
  { NotJson,
    JObject([response |-> JObject([text |-> JString(<<"ok">>),
                                   message_type |-> JString("text")])]) }

\* The state of a chat component just mounted: its input, its messages, its
\* suspended handleSend runs, the requests it has issued.
CopyMounted(v) ==
  [input |-> <<>>, messages |-> InitialMessages(v), calls |-> EmptyObject,
   requests |-> <<>>, accepted |-> 0]

\* The state s of a component after a part of run id of handleSend has had
\* the effects eff.
CopyApply(s, eff, id) ==
  [s EXCEPT !.messages = SetMessages(@, eff.append),
            !.requests = @ \o [i \in 1..Len(eff.fetch) |->
                                 eff.fetch[i] @@ [by |-> id]],
            !.input = IF eff.setInput = <<>> THEN @ ELSE eff.setInput[1]]

\* Component v in state s after its form is submitted.
CopySubmit(v, s, token) ==
  LET id == s.accepted + 1
      eff == SubmitEffects(v, s.input, token)
  IN [CopyApply(s, eff, id) EXCEPT
        !.accepted = IF Trim(s.input) # <<>> THEN id ELSE @,
        !.calls = IF eff.fetch = <<>> THEN @
                  ELSE @ @@ (id :> [previousInput |-> s.input])]

\* Component v in state s after the fetch of its run id has rejected
\* (rejected = TRUE) or resolved with the body; s when it has no such run.
CopySettle(v, s, id, rejected, body) ==
  IF id \notin DOMAIN s.calls THEN s
  ELSE [CopyApply(s, IF rejected
                     THEN RejectEffects(v, s.calls[id].previousInput)
                     ELSE BodyEffects(v, s.calls[id].previousInput, body), id)
          EXCEPT !.calls = Without(@, id)]

\* The events reach every component; the chat of the main state stands by.
Broadcast(kind, id) ==
  /\ event' = [kind |-> kind, id |-> id]
  /\ UNCHANGED <<variant, input, messages, calls, appendedBy, accepted, requests>>
  /\ UNCHANGED <<dashboardVars, authVars, browserVars>>

\* The user types the same text into every component.
CopiesType(value) ==
  /\ \E v \in ChatCopies : copies[v].input # value
  /\ copies' = [v \in ChatCopies |-> [copies[v] EXCEPT !.input = value]]
  /\ Broadcast("type", 0)

\* The user submits the form of every component.
CopiesSubmit ==
  /\ \A v \in ChatCopies :
       Trim(copies[v].input) # <<>> => copies[v].accepted < MaxSubmits
  /\ copies' = [v \in ChatCopies |->
                  CopySubmit(v, copies[v], safeGetToken(cookie))]
  /\ Broadcast("submit", 0)

\* The request of run id of every component that has one fails.
CopiesReject(id) ==
  /\ \E v \in ChatCopies : id \in DOMAIN copies[v].calls
  /\ copies' = [v \in ChatCopies |-> CopySettle(v, copies[v], id, TRUE, NotJson)]
  /\ Broadcast("reject", id)

\* The request of run id of every component that has one is answered with
\* the same body.
CopiesResolve(id, body) ==
  /\ \E v \in ChatCopies : id \in DOMAIN copies[v].calls
  /\ copies' = [v \in ChatCopies |-> CopySettle(v, copies[v], id, FALSE, body)]
  /\ Broadcast("response", id)

InitCopies ==
  /\ variant = "Chat"
  /\ input = <<>>
  /\ messages = InitialMessages(variant)
  /\ calls = EmptyObject
  /\ appendedBy = [i \in 1..Len(InitialMessages(variant)) |-> 0]
  /\ accepted = 0
  /\ copies = [v \in ChatCopies |-> CopyMounted(v)]
  /\ DashboardMounted
  /\ AuthMounted
  /\ cookie \in {NoCookie} \cup {<<t>> : t \in Tokens}
  /\ location = "/dashboard"
  /\ loading = FALSE
  /\ alerts = <<>>
  /\ requests = <<>>
  /\ event = [kind |-> "mount", id |-> 0]

NextCopies ==
  \/ \E value \in InputValues : CopiesType(value)
  \/ CopiesSubmit
  \/ \E id \in 1..MaxSubmits : CopiesReject(id)
  \/ \E id \in 1..MaxSubmits, body \in CopyBodies : CopiesResolve(id, body)

SpecCopies == InitCopies /\ [][NextCopies]_vars

\* --------------------------------------------------------------- routing

\* A pathname is a sequence of pieces. The pathnames requested in the model:
\* the two pages, a path below the dashboard, a path that only starts with
\* the letters of /dashboard, and a path elsewhere.
Pathnames ==
  { <<"/">>, <<"/dashboard">>, <<"/dashboard", "/", "settings">>,
    <<"/dashboard", "x">>, <<"/", "about">> }

\* pathname.startsWith("/dashboard")
StartsWithDashboard(pathname) == pathname[1] = "/dashboard"

\* config.matcher: ["/", "/dashboard/:path*"]
Matcher(pathname) ==
  \/ pathname = <<"/">>
  \/ /\ pathname[1] = "/dashboard"
     /\ Len(pathname) > 1 => pathname[2] = "/"

\* request.cookies.get("token"): the cookie, whatever its value, or undefined.
CookieOf(c) ==
  IF c = NoCookie THEN JUndefined
  ELSE JObject([name |-> JString(<<"token">>), value |-> JString(c[1])])

PassOn == [type |-> "next"]

Redirect(url) == [type |-> "redirect", url |-> url]

\* A middleware without the rule for "/".
middlewareNoAuthRule(prefetch, token, pathname) ==
  IF prefetch THEN PassOn
  ELSE IF ~Truthy(token) /\ StartsWithDashboard(pathname) THEN Redirect(<<"/">>)
  ELSE PassOn

\* A middleware without the dashboard rule.
middlewareOpen(prefetch, token, pathname) ==
  IF prefetch THEN PassOn
  ELSE IF Truthy(token) /\ pathname = <<"/">> THEN Redirect(<<"/dashboard">>)
  ELSE PassOn

\* middleware(request), for the x-middleware-prefetch header, the token
\* cookie and the pathname of the request.
middleware(prefetch, token, pathname) ==
  IF prefetch THEN PassOn
  ELSE IF ~Truthy(token) /\ StartsWithDashboard(pathname) THEN Redirect(<<"/">>)
  ELSE IF Truthy(token) /\ pathname = <<"/">> THEN Redirect(<<"/dashboard">>)
  ELSE PassOn

\* The answer to a request: the middleware runs on the paths of its matcher.
Serve(prefetch, c, pathname) ==
  IF Matcher(pathname) THEN middleware(prefetch, CookieOf(c), pathname)
  ELSE PassOn

\* What a run of the middleware of part_003 does: the response it returns
\* and the lines it writes with console.log.
Outcome(response, log) == [response |-> response, log |-> log]

\* A middleware that tests the value of the cookie, token?.value.
middlewarePart003ByValue(prefetch, token, pathname) ==
  LET path == pathname
      value == Get(token, "value")
  IN IF prefetch THEN Outcome(PassOn, <<>>)
     ELSE IF ~Truthy(value) /\ StartsWithDashboard(path)
     THEN Outcome(Redirect(<<"/">>), <<>>)
     ELSE IF Truthy(value) /\ path = <<"/">>
     THEN Outcome(Redirect(<<"/dashboard">>),
                  << <<"Redirecting to dashboard", token>> >>)
     ELSE Outcome(PassOn, <<>>)

\* middleware(request) of part_003: the pathname is read once into path and
\* the redirect to the dashboard is logged.
middlewarePart003(prefetch, token, pathname) ==
  LET path == pathname
  IN IF prefetch THEN Outcome(PassOn, <<>>)
     ELSE IF ~Truthy(token) /\ StartsWithDashboard(path)
     THEN Outcome(Redirect(<<"/">>), <<>>)
     ELSE IF Truthy(token) /\ path = <<"/">>
     THEN Outcome(Redirect(<<"/dashboard">>),
                  << <<"Redirecting to dashboard", token>> >>)
     ELSE Outcome(PassOn, <<>>)

\* config.matcher of part_003: ["/", "/dashboard/:path*"]
MatcherPart003(pathname) ==
  \/ pathname = <<"/">>
  \/ /\ pathname[1] = "/dashboard"
     /\ Len(pathname) > 1 => pathname[2] = "/"

\* The answer to a request when the middleware deployed is that of part_003.
ServePart003(prefetch, c, pathname) ==
  IF MatcherPart003(pathname)
  THEN middlewarePart003(prefetch, CookieOf(c), pathname)
  ELSE Outcome(PassOn, <<>>)

\* Where the browser ends when it follows the redirect of the answer.
Landing(c, pathname) ==
  LET r == Serve(FALSE, c, pathname)
  IN IF r.type = "redirect" THEN r.url ELSE pathname

\* The page of the app directory a pathname is routed to.
Route(pathname) ==
  IF pathname = <<"/">> THEN "/"
  ELSE IF pathname = <<"/dashboard">> THEN "/dashboard"
  ELSE "/404"

\* ------------------------------------------------------------- dashboard

\* A write that keeps the token only up to its first "=".
SetTokenFirstPiece(j) == <<UpToEquals(Stringify(j))>>

\* document.cookie = `token=${j}; path=/`
SetToken(j) == <<Stringify(j)>>

\* document.cookie = "token=; path=/" with no expiry date: the cookie stays,
\* with an empty value.
ClearTokenEmptyValue(c) == << <<>> >>

\* document.cookie = "token=; path=/; expires=Thu, 01 Jan 1970 00:00:00 GMT"
ClearToken(c) == NoCookie

\* router.push(target) with the cookie c the handler leaves: the router
\* requests target from the server, where the middleware answers, and the
\* page it lands on is mounted with its loading state true; landing on the
\* page that is already shown mounts nothing.
Push(c, target) ==
  /\ location' = Route(Landing(c, Landing(c, <<target>>)))
  /\ loading' = IF location' = location THEN loading ELSE TRUE

\* What DashboardPage returns past `if (loading)`: the app bar, the chat and
\* the bookings list.
Surface == location = "/dashboard" /\ ~loading

\* What AuthPage returns past `if (loading)`: the login / signup form.
FormShown == location = "/" /\ ~loading

\* handleShowBookings: fetchMyBookings up to its await. Without a token
\* fetchMyBookings returns at once and the flag is set in the same step.
ShowBookingsClick ==
  LET id == clicks + 1
      token == safeGetToken(cookie)
  IN /\ location = "/dashboard"
     /\ ~loading
     /\ clicks < MaxClicks
     /\ clicks' = id
     /\ IF Truthy(token)
        THEN /\ requests' = Append(requests,
                   [path |-> "/my-bookings", by |-> id,
                    authorization |-> <<"Bearer ">> \o Stringify(token)])
             /\ bookingsCalls' =
                   bookingsCalls @@ (id :> [showBookings |-> showBookings])
             /\ UNCHANGED showBookings
        ELSE /\ showBookings' = ~showBookings
             /\ UNCHANGED <<requests, bookingsCalls>>
     /\ event' = [kind |-> "click", id |-> id]
     /\ UNCHANGED <<bookings, chatVars, authVars, browserVars>>

\* The /my-bookings fetch of run id rejects: the catch block alerts, then
\* handleShowBookings sets the flag from the value it captured.
MyBookingsReject(id) ==
  /\ alerts' = Append(alerts, <<"Error fetching bookings.">>)
  /\ showBookings' = ~bookingsCalls[id].showBookings
  /\ bookingsCalls' = Without(bookingsCalls, id)
  /\ event' = [kind |-> "bookings-reject", id |-> id]
  /\ UNCHANGED <<bookings, clicks, cookie, location, loading, requests, chatVars,
                 authVars>>

\* The /my-bookings fetch of run id resolves: a non-2xx status alerts and
\* returns, a body that is not JSON alerts from the catch block, any other
\* body goes to setBookings; then the flag is set.
MyBookingsResolve(id, ok, body) ==
  /\ IF ~ok
     THEN alerts' = Append(alerts, <<"Failed to fetch bookings.">>)
          /\ UNCHANGED bookings
     ELSE IF body = NotJson
     THEN alerts' = Append(alerts, <<"Error fetching bookings.">>)
          /\ UNCHANGED bookings
     ELSE bookings' = body /\ UNCHANGED alerts
  /\ showBookings' = ~bookingsCalls[id].showBookings
  /\ bookingsCalls' = Without(bookingsCalls, id)
  /\ event' = [kind |-> "bookings-response", id |-> id]
  /\ UNCHANGED <<clicks, cookie, location, loading, requests, chatVars, authVars>>

\* handleLogout: the cookie is expired and the router sent to "/".
Logout ==
  /\ location = "/dashboard"
  /\ ~loading
  /\ cookie' = ClearToken(cookie)
  /\ Push(ClearToken(cookie), "/")
  /\ event' = [kind |-> "logout", id |-> 0]
  /\ UNCHANGED <<alerts, requests, chatVars, dashboardVars, authVars>>

\* The browser drops the token cookie while the page is open (a logout in
\* another tab of the same origin).
CookieGone ==
  /\ cookie # NoCookie
  /\ cookie' = NoCookie
  /\ event' = [kind |-> "cookie-gone", id |-> 0]
  /\ UNCHANGED <<location, loading, alerts, requests, chatVars, dashboardVars,
                 authVars>>

\* A dashboard page that has passed its token check.
InitDashboard ==
  /\ ChatMounted({"Chat"})
  /\ DashboardMounted
  /\ AuthMounted
  /\ cookie \in {<<t>> : t \in Tokens}
  /\ location = "/dashboard"
  /\ loading = FALSE
  /\ alerts = <<>>
  /\ requests = <<>>
  /\ event = [kind |-> "mount", id |-> 0]

\* The chat of the dashboard page, with the cookie and the logout button.
NextDashboardChat ==
  \/ Surface /\ \E value \in {<<>>, <<"a">>} : Type(value)
  \/ Surface /\ Submit
  \/ \E id \in DOMAIN calls : FetchReject(id)
  \/ \E id \in DOMAIN calls, ok \in BOOLEAN, body \in DashboardChatBodies :
       FetchResolve(id, ok, body)
  \/ Logout
  \/ CookieGone

SpecDashboardChat == InitDashboard /\ [][NextDashboardChat]_vars

NextDashboard ==
  \/ ShowBookingsClick
  \/ \E id \in DOMAIN bookingsCalls : MyBookingsReject(id)
  \/ \E id \in DOMAIN bookingsCalls, ok \in BOOLEAN, body \in BookingsBodies :
       MyBookingsResolve(id, ok, body)
  \/ Logout
  \/ CookieGone

SpecDashboard == InitDashboard /\ [][NextDashboard]_vars

\* ------------------------------------------------------------- auth page

\* The button under the form: setAuthMode to the other mode.
ToggleAuthMode ==
  /\ location = "/"
  /\ ~loading
  /\ authMode' = IF authMode = "login" THEN "signup" ELSE "login"
  /\ event' = [kind |-> "toggle", id |-> 0]
  /\ UNCHANGED <<authCalls, authSubmits, requests, chatVars, dashboardVars,
                 browserVars>>

\* handleAuthSubmit up to its fetch, to /signup or /login by authMode.
AuthSubmit ==
  LET id == authSubmits + 1
  IN /\ location = "/"
     /\ ~loading
     /\ authSubmits < MaxAuthSubmits
     /\ authSubmits' = id
     /\ authCalls' = authCalls @@ (id :> [authMode |-> authMode])
     /\ requests' = Append(requests,
           [path |-> IF authMode = "signup" THEN "/signup" ELSE "/login",
            by |-> id])
     /\ event' = [kind |-> "auth-submit", id |-> id]
     /\ UNCHANGED <<authMode, chatVars, dashboardVars, browserVars>>

\* The fetch of run id rejects: the catch block of its branch alerts.
AuthReject(id) ==
  /\ alerts' = Append(alerts, IF authCalls[id].authMode = "signup"
                                THEN <<"Signup error.">> ELSE <<"Login error.">>)
  /\ authCalls' = Without(authCalls, id)
  /\ event' = [kind |-> "auth-reject", id |-> id]
  /\ UNCHANGED <<authMode, authSubmits, cookie, location, loading, requests,
                 chatVars, dashboardVars>>

\* The alert of a run whose response was non-2xx: the detail of the body,
\* or the alert of the catch block when the body cannot be read.
FailureAlert(mode, body) ==
  IF body = NotJson \/ Throws(body)
  THEN IF mode = "signup" THEN <<"Signup error.">> ELSE <<"Login error.">>
  ELSE (IF mode = "signup" THEN <<"Sign up failed: ">> ELSE <<"Login failed: ">>)
         \o Stringify(Get(body, "detail"))

\* The fetch of run id resolves and the run finishes.
AuthResolve(id, ok, body) ==
  LET mode == authCalls[id].authMode
  IN /\ IF ~ok
        THEN /\ alerts' = Append(alerts, FailureAlert(mode, body))
             /\ UNCHANGED <<authMode, cookie, location, loading>>
        ELSE IF mode = "signup"
        THEN /\ alerts' = Append(alerts, <<"Sign up successful! Please log in.">>)
             /\ authMode' = "login"
             /\ UNCHANGED <<cookie, location, loading>>
        ELSE IF body = NotJson \/ Throws(body)
        THEN /\ alerts' = Append(alerts, <<"Login error.">>)
             /\ UNCHANGED <<authMode, cookie, location, loading>>
        ELSE /\ cookie' = SetToken(Get(body, "access_token"))
             /\ Push(SetToken(Get(body, "access_token")), "/dashboard")
             /\ UNCHANGED <<authMode, alerts>>
     /\ authCalls' = Without(authCalls, id)
     /\ event' = [kind |-> "auth-response", id |-> id]
     /\ UNCHANGED <<authSubmits, requests, chatVars, dashboardVars>>

NextAuth ==
  \/ ToggleAuthMode
  \/ AuthSubmit
  \/ \E id \in DOMAIN authCalls : AuthReject(id)
  \/ \E id \in DOMAIN authCalls, ok \in BOOLEAN, body \in AuthBodies :
       AuthResolve(id, ok, body)

\* An auth page that has passed its token check: no session.
InitAuth ==
  /\ ChatMounted({"Chat"})
  /\ DashboardMounted
  /\ AuthMounted
  /\ cookie = NoCookie
  /\ location = "/"
  /\ loading = FALSE
  /\ alerts = <<>>
  /\ requests = <<>>
  /\ event = [kind |-> "mount", id |-> 0]

SpecAuth == InitAuth /\ [][NextAuth]_vars

\* ------------------------------------------------------------ navigation

\* The browser requests a pathname. A prefetch fetches the answer and mounts
\* nothing; a page load follows the redirect and mounts the page afresh,
\* which ends the handler runs of the page before.
Request(pathname, prefetch) ==
  /\ event' = [kind |-> "request", id |-> 0, pathname |-> pathname,
               prefetch |-> prefetch, response |-> Serve(prefetch, cookie, pathname)]
  /\ IF prefetch
     THEN UNCHANGED <<chatVars, dashboardVars, authVars, location, loading>>
     ELSE /\ location' = Route(Landing(cookie, Landing(cookie, pathname)))
          /\ loading' = TRUE
          /\ input' = <<>>
          /\ messages' = InitialMessages(variant)
          /\ appendedBy' = [i \in 1..Len(InitialMessages(variant)) |-> 0]
          /\ calls' = EmptyObject
          /\ bookings' = JArray(<<>>)
          /\ showBookings' = FALSE
          /\ bookingsCalls' = EmptyObject
          /\ authMode' = "login"
          /\ authCalls' = EmptyObject
          /\ UNCHANGED <<variant, accepted, copies, clicks, authSubmits>>
  /\ UNCHANGED <<cookie, alerts, requests>>

\* The mount effect of DashboardPage: without a token the router is sent to
\* "/", with one the loading state ends.
DashboardEffect ==
  /\ location = "/dashboard"
  /\ loading
  /\ IF ~Truthy(safeGetToken(cookie))
     THEN Push(cookie, "/")
     ELSE loading' = FALSE /\ UNCHANGED location
  /\ event' = [kind |-> "dashboard-effect", id |-> 0]
  /\ UNCHANGED <<cookie, alerts, requests, chatVars, dashboardVars, authVars>>

\* The mount effect of AuthPage: with a token the router is sent to
\* /dashboard, without one the loading state ends.
AuthEffect ==
  /\ location = "/"
  /\ loading
  /\ IF Truthy(safeGetToken(cookie))
     THEN Push(cookie, "/dashboard")
     ELSE loading' = FALSE /\ UNCHANGED location
  /\ event' = [kind |-> "auth-effect", id |-> 0]
  /\ UNCHANGED <<cookie, alerts, requests, chatVars, dashboardVars, authVars>>

\* The browser has loaded "/" with no session; the page's effect has not run.
InitRouting ==
  /\ ChatMounted({"Chat"})
  /\ DashboardMounted
  /\ AuthMounted
  /\ cookie = NoCookie
  /\ location = "/"
  /\ loading = TRUE
  /\ alerts = <<>>
  /\ requests = <<>>
  /\ event = [kind |-> "mount", id |-> 0]

NextRouting ==
  \/ \E pathname \in Pathnames, prefetch \in BOOLEAN : Request(pathname, prefetch)
  \/ AuthEffect
  \/ DashboardEffect
  \/ ToggleAuthMode
  \/ AuthSubmit
  \/ \E id \in DOMAIN authCalls : AuthReject(id)
  \/ \E id \in DOMAIN authCalls, ok \in BOOLEAN, body \in AuthBodies :
       AuthResolve(id, ok, body)
  \/ Logout
  \/ CookieGone

SpecRouting == InitRouting /\ [][NextRouting]_vars

\* The states of the token cookie: none, one with an empty value (what
\* `token=${data.access_token}` leaves for an empty access_token), one with
\* a token.
CookieStates == {NoCookie, << <<>> >>} \cup {<<t>> : t \in Tokens}

\* Another tab of the same origin logs in while the page is open: the
\* browser has a token cookie with a new value.
CookieSet(c) ==
  /\ c # NoCookie
  /\ c # cookie
  /\ cookie' = c
  /\ event' = [kind |-> "cookie-set", id |-> 0]
  /\ UNCHANGED <<location, loading, alerts, requests, chatVars, dashboardVars,
                 authVars>>

\* A page, "/" or /dashboard, has just been mounted, by whatever way the
\* browser came to it, with the cookie in any of its states.
InitNavigation ==
  /\ ChatMounted({"Chat"})
  /\ DashboardMounted
  /\ AuthMounted
  /\ cookie \in CookieStates
  /\ location \in {"/", "/dashboard"}
  /\ loading = TRUE
  /\ alerts = <<>>
  /\ requests = <<>>
  /\ event = [kind |-> "mount", id |-> 0]

\* What the user and the other tabs do to the navigation.
Disturb ==
  \/ \E pathname \in Pathnames : Request(pathname, FALSE)
  \/ Logout
  \/ CookieGone
  \/ \E t \in Tokens : CookieSet(<<t>>)

NextNavigation ==
  \/ \E pathname \in Pathnames, prefetch \in BOOLEAN : Request(pathname, prefetch)
  \/ AuthEffect
  \/ DashboardEffect
  \/ Logout
  \/ CookieGone
  \/ \E t \in Tokens : CookieSet(<<t>>)

SpecNavigation == InitNavigation /\ [][NextNavigation]_vars

\* React runs the effect of a page it has mounted.
SpecNavigationFair ==
  SpecNavigation /\ WF_vars(AuthEffect) /\ WF_vars(DashboardEffect)

\* ------------------------------------------------------------- rendering

\* msg.key of a message of the log: undefined when the key is not there.
Prop(msg, key) == IF key \in DOMAIN msg THEN msg[key] ELSE JUndefined

\* <Typography>{j}</Typography>: j as literal text.
TextElement(j) == [tag |-> "Typography", child |-> j]

\* <ReactMarkdown>{j || ""}</ReactMarkdown>: j through the markdown renderer.
MarkdownElement(j) ==
  [tag |-> "ReactMarkdown", child |-> IF Truthy(j) THEN j ELSE JString(<<>>)]

\* <strong>{msg.sender}:</strong> in front of the text.
SenderElement(sender) == [tag |-> "strong", child |-> JString(<<sender, ":">>)]

\* <strong>label</strong> {value}
FieldElement(label, j) == [tag |-> "field", label |-> label, child |-> j]

\* A block that leaves out the label of a field that is undefined.
FieldBlockDefined(details) ==
  (IF Get(details, "id") = JUndefined THEN <<>>
   ELSE <<FieldElement("Service ID:", Get(details, "id"))>>)
  \o (IF Get(details, "service") = JUndefined THEN <<>>
      ELSE <<FieldElement("Service:", Get(details, "service"))>>)
  \o (IF Get(details, "technician") = JUndefined THEN <<>>
      ELSE <<FieldElement("Technician:", Get(details, "technician"))>>)
  \o (IF Get(details, "datetime") = JUndefined THEN <<>>
      ELSE <<FieldElement("Date/Time:", Get(details, "datetime"))>>)

\* The block of the four labelled fields of msg.details.
FieldBlock(details) ==
  << FieldElement("Service ID:", Get(details, "id")),
     FieldElement("Service:", Get(details, "service")),
     FieldElement("Technician:", Get(details, "technician")),
     FieldElement("Date/Time:", Get(details, "datetime")) >>

\* msg.messageType === "booking_details" && msg.details
ShowsDetails(msg) ==
  /\ Prop(msg, "messageType") = JString("booking_details")
  /\ Truthy(Prop(msg, "details"))

\* The colours of the bubble: they follow the sender in every component.
BubbleStyle(v, isUser) ==
  CASE v \in {"Chat", "ChatMarkdown"} ->
         [background |-> IF isUser THEN "#0B57D0" ELSE "#F3F4F6",
          color |-> IF isUser THEN "white" ELSE "inherit"]
    [] v = "DashboardPage" ->
         [background |-> "none",
          color |-> IF isUser THEN "primary" ELSE "textSecondary"]
    [] v = "Home" ->
         [background |-> IF isUser THEN "#0B57D0" ELSE "#F3F6FC",
          color |-> IF isUser THEN "white" ELSE "black"]
    [] OTHER ->
         [background |-> IF isUser THEN "primary.light" ELSE "grey.200",
          color |-> IF isUser THEN "primary.contrastText" ELSE "text.primary"]

\* The elements inside the bubble, in order.
BubbleContent(v, msg) ==
  LET text == Prop(msg, "text")
      details == Prop(msg, "details")
  IN CASE v = "Chat" ->
            <<TextElement(text)>>
              \o (IF ShowsDetails(msg) THEN FieldBlock(details) ELSE <<>>)
       [] v = "ChatMarkdown" ->
            IF Prop(msg, "messageType") = JString("markdown")
            THEN <<MarkdownElement(text)>>
            ELSE IF ShowsDetails(msg)
            THEN <<TextElement(text)>> \o FieldBlock(details)
            ELSE <<TextElement(text)>>
       [] v = "DashboardPage" ->
            <<SenderElement(msg.sender), TextElement(text)>>
              \o (IF ShowsDetails(msg) THEN FieldBlock(details) ELSE <<>>)
       [] v = "Home" ->
            IF ShowsDetails(msg)
            THEN (IF Truthy(text) THEN <<TextElement(text)>> ELSE <<>>)
                   \o FieldBlock(details)
            ELSE <<TextElement(text)>>
       [] OTHER -> <<TextElement(text)>>

\* renderChatMessage / renderMessage: one message of the log as its bubble.
renderChatMessage(v, msg) ==
  [style |-> BubbleStyle(v, msg.sender = "User"), content |-> BubbleContent(v, msg)]

\* {j} as a child of an element: React throws on an object.
ValidChild(j) == j.type # "object"

\* BookingsList: bookings.length === 0 ? ... : bookings.map(...) throws a
\* TypeError on anything that is not an array.
BookingsListRenders(b) == b.type = "array"

\* The components on the screen render without throwing: every message of
\* the log, and the bookings list when it is shown.
PageRenders ==
  /\ \A i \in 1..Len(messages) :
       LET content == renderChatMessage(variant, messages[i]).content
       IN \A k \in 1..Len(content) : ValidChild(content[k].child)
  /\ showBookings => BookingsListRenders(bookings)

\* Replies that put every rule of the renderer to work: each message type,
\* booking details in full, in part, empty and missing, with and without
\* text, and an error that carries details.
RenderReplies ==
  { [text |-> JString(<<"ok">>), message_type |-> JString("text")],
    [text |-> JString(<<"**ok**">>), message_type |-> JString("markdown")],
    [text |-> JString(<<"booked">>), message_type |-> JString("booking_details"),
     details |-> FullDetails],
    [message_type |-> JString("booking_details"), details |-> FullDetails],
    [text |-> JString(<<"booked">>), message_type |-> JString("booking_details"),
     details |-> JObject([id |-> JNumber(1)])],
    [text |-> JString(<<"booked">>), message_type |-> JString("booking_details")],
    [text |-> JString(<<"failed">>), message_type |-> JString("error"),
     details |-> FullDetails] }

RenderBodies == { JObject([response |-> JObject(r)]) : r \in RenderReplies }

\* The chat with one text to send and the replies of RenderReplies.
NextRender ==
  \/ Type(<<"a">>)
  \/ Submit
  \/ \E id \in DOMAIN calls : FetchReject(id)
  \/ \E id \in DOMAIN calls, ok \in BOOLEAN, body \in RenderBodies :
       FetchResolve(id, ok, body)

SpecRender == Init /\ [][NextRender]_vars

\* ------------------------------------------------------- claims C1 .. C10

Last(seq) == seq[Len(seq)]

\* The senders of the messages run id has appended so far, in order.
RECURSIVE SendersFrom(_, _)
SendersFrom(id, i) ==
  IF i > Len(appendedBy) \/ i > Len(messages) THEN <<>>
  ELSE (IF appendedBy[i] = id THEN <<messages[i].sender>> ELSE <<>>)
         \o SendersFrom(id, i + 1)

Senders(id) == SendersFrom(id, 1)

\* m.messageType === t
HasType(m, t) ==
  /\ "messageType" \in DOMAIN m
  /\ m.messageType.type = "string"
  /\ m.messageType.value = t

\* m.text === t
HasText(m, t) ==
  /\ "text" \in DOMAIN m
  /\ m.text.type = "string"
  /\ m.text.value = t

\* C1: every accepted submission has appended exactly one User message
\* while its request is unresolved, and exactly one System message more
\* once it has resolved, on the success and on the error path; nothing else
\* is in the log, so that with no request in flight the log has grown by
\* exactly 2 messages per accepted submission.
C1_TwoMessagesPerSubmission ==
  /\ \A id \in 1..accepted :
        Senders(id) = IF id \in DOMAIN calls THEN <<"User">>
                      ELSE <<"User", "System">>
  /\ Len(messages) = Len(appendedBy)
  /\ calls = EmptyObject =>
        Len(messages) = Len(InitialMessages(variant)) + 2 * accepted

\* Two submissions whose responses came back in the opposite order, the
\* second on the error path, and nothing left in flight.
C1_Witness ==
  /\ accepted = 2
  /\ calls = EmptyObject
  /\ Len(messages) >= 4
  /\ LET n == Len(messages)
     IN /\ SubSeq(appendedBy, n - 3, n) = <<1, 2, 2, 1>>
        /\ HasText(messages[n - 1], ErrorText)
        /\ ~HasText(messages[n], ErrorText)

\* C2: a submission of an empty or whitespace-only input changes neither
\* the log, nor the input field, nor the runs in flight, and issues no
\* request.
C2_BlankSubmitIsNoOp ==
  [][(event'.kind = "submit" /\ Trim(input) = <<>>)
       => UNCHANGED <<messages, input, calls, requests>>]_vars

\* A whitespace-only input has been submitted while a request was in flight.
C2_Witness ==
  /\ event = [kind |-> "submit", id |-> 0]
  /\ input = <<" ">>
  /\ calls # EmptyObject
  /\ Len(requests) = 1

Malformed(body) ==
  \/ body.type # "object"
  \/ Get(body, "response").type # "object"
  \/ Get(Get(body, "response"), "text").type = "undefined"
  \/ Get(Get(body, "response"), "message_type").type = "undefined"

\* C4, for the variants with typed messages: a response that is non-2xx or
\* whose body is malformed makes the client append the System error message
\* with the fixed text, and nothing built from the body.
C4_BadResponseIsLocalError ==
  [][\A id \in DOMAIN calls, ok \in BOOLEAN, body \in Bodies :
       (/\ TypedMessages(variant)
        /\ FetchResolve(id, ok, body)
        /\ ~ok \/ Malformed(body))
       => messages' = messages \o
            << [sender |-> "System", text |-> JString(ErrorText),
                messageType |-> JString("error")] >>]_vars

\* C5: in the input-preserving variant, when the request fails the input
\* field ends up holding the submitted text, and no text that was in the
\* field (typed while the request was in flight) is lost by that.
C5_NoTypedTextLost ==
  [][(event'.kind = "reject" /\ RestoresInput(variant))
       => /\ input' = calls[event'.id].previousInput
          /\ input = <<>> \/ input' = input]_vars

\* C6, for the variants with typed messages: a booking_details message has
\* a non-empty details record and an error message has no details.
C6_DetailsMatchType ==
  TypedMessages(variant) =>
    \A i \in 1..Len(messages) :
      LET m == messages[i]
      IN /\ HasType(m, "booking_details") =>
              /\ "details" \in DOMAIN m
              /\ m.details.type = "object"
              /\ DOMAIN m.details.value # {}
         /\ HasType(m, "error") => "details" \notin DOMAIN m

\* C7, for the variants with typed messages: every message of the log has
\* a sender among User and System and a messageType among text,
\* booking_details, error and markdown.
C7_MessagesWellTyped ==
  TypedMessages(variant) =>
    \A i \in 1..Len(messages) :
      /\ messages[i].sender \in {"User", "System"}
      /\ \E t \in {"text", "booking_details", "error", "markdown"} :
           HasType(messages[i], t)

\* C8: every step leaves the log as it was or puts one message after its
\* last one, the message of the run that appends in that step: every
\* earlier log is a prefix of every later one, and the messages stand in
\* the order of the steps that appended them.
C8_AppendOnlyChronological ==
  [][/\ Len(messages) <= Len(messages')
     /\ Len(messages') <= Len(messages) + 1
     /\ SubSeq(messages', 1, Len(messages)) = messages
     /\ Len(messages') = Len(messages) + 1 =>
          /\ event'.kind \in {"submit", "reject", "response"}
          /\ Last(messages').sender =
               IF event'.kind = "submit" THEN "User" ELSE "System"]_vars

\* Two submissions answered in the opposite order: the log has the
\* greeting, both User messages, then the reply to the second and the
\* reply to the first.
C8_Witness ==
  /\ variant = "ChatMarkdown"
  /\ Len(messages) = 5
  /\ appendedBy = <<0, 1, 2, 2, 1>>
  /\ messages[2].sender = "User" /\ messages[3].sender = "User"
  /\ HasType(messages[4], "markdown")
  /\ HasType(messages[5], "booking_details")

\* C9: at any time at most one /chat request, at most one /my-bookings
\* request and at most one /login or /signup request is outstanding.
C9_OneRequestInFlight ==
  /\ Cardinality(DOMAIN calls) <= 1
  /\ Cardinality(DOMAIN bookingsCalls) <= 1
  /\ Cardinality(DOMAIN authCalls) <= 1

\* C10: every accepted submission has issued exactly one /chat request; a
\* transport failure appends the error message in the step in which it is
\* handled and issues nothing; only a submission issues a request.
C10_NoAutomaticRetry ==
  [][/\ Len(requests') = accepted'
     /\ \A i \in 1..Len(requests') :
          requests'[i].by = i /\ requests'[i].path = "/chat"
     /\ event'.kind = "reject" =>
          /\ requests' = requests
          /\ Len(messages') = Len(messages) + 1
          /\ Last(messages').sender = "System"
          /\ HasText(Last(messages'), ErrorText)
     /\ requests' # requests => event'.kind = "submit"]_vars

\* A request has failed, its error is in the log, and the user, whose text
\* was restored, has not submitted again: one request in all.
C10_Witness ==
  /\ event = [kind |-> "reject", id |-> 1]
  /\ variant = "ChatMarkdown"
  /\ input = <<"a">>
  /\ Len(requests) = 1
  /\ calls = EmptyObject
  /\ HasText(Last(messages), ErrorText)


\* ------------------------------------------------------ claims C11 .. C20

\* C11 as stated: every request for a pathname that starts with /dashboard
\* and carries no token cookie is answered with a redirect to "/"; the mount
\* effect of the dashboard page without a token sends the router to "/" and
\* does not show the surface, and the surface only ever appears by an effect
\* that found a token.
C11_Original ==
  [][ /\ \A pathname \in Pathnames, prefetch \in BOOLEAN :
           (Request(pathname, prefetch) /\ cookie = NoCookie
              /\ StartsWithDashboard(pathname))
             => event'.response = Redirect(<<"/">>)
      /\ (DashboardEffect /\ ~Truthy(safeGetToken(cookie)))
           => (location' = "/" /\ ~Surface')
      /\ (~Surface /\ Surface') => Truthy(safeGetToken(cookie)) ]_vars

\* C11 as amended: a request without the x-middleware-prefetch header, for
\* /dashboard or a path below it, that carries no token cookie is answered
\* with a redirect to "/" and the browser lands on "/"; a request with the
\* header, or for a pathname outside the matcher, is passed on; the mount
\* effect of the dashboard page without a token sends the router to "/" and
\* does not show the surface, and the surface only ever appears by an effect
\* that found a token.
C11_TokenGate ==
  [][ /\ \A pathname \in Pathnames, prefetch \in BOOLEAN :
           (Request(pathname, prefetch) /\ cookie = NoCookie
              /\ StartsWithDashboard(pathname))
             => IF ~prefetch /\ Matcher(pathname)
                THEN event'.response = Redirect(<<"/">>) /\ location' = "/"
                ELSE event'.response = PassOn
      /\ (DashboardEffect /\ ~Truthy(safeGetToken(cookie)))
           => (location' = "/" /\ ~Surface')
      /\ (~Surface /\ Surface') => Truthy(safeGetToken(cookie)) ]_vars

\* A page load of a path below /dashboard without a cookie has been
\* redirected and the auth page is mounted.
C11_Witness ==
  /\ event.kind = "request"
  /\ event.pathname = <<"/dashboard", "/", "settings">>
  /\ ~event.prefetch
  /\ event.response = Redirect(<<"/">>)
  /\ cookie = NoCookie
  /\ location = "/"
  /\ loading


\* C12: handleLogout leaves no token to read (safeGetToken returns null) and
\* sends the router to "/"; a request for /dashboard made next is answered
\* with a redirect to "/" and lands there.
C12_LogoutClearsToken ==
  [][ /\ Logout => /\ safeGetToken(cookie') = JNull
                   /\ location' = "/"
                   /\ Serve(FALSE, cookie', <<"/dashboard">>) = Redirect(<<"/">>)
      /\ (event.kind = "logout" /\ Request(<<"/dashboard">>, FALSE))
           => (event'.response = Redirect(<<"/">>) /\ location' = "/") ]_vars

\* The user has logged out of a dashboard that was shown.
C12_Witness ==
  /\ event.kind = "logout"
  /\ cookie = NoCookie
  /\ location = "/"
  /\ loading
  /\ authSubmits > 0


\* Run id of handleSend sent its /chat request with an Authorization header.
SentWithToken(id) ==
  \E i \in 1..Len(requests) :
    /\ requests[i].path = "/chat"
    /\ requests[i].by = id
    /\ "authorization" \in DOMAIN requests[i]

\* C13: when the server rejects a /my-bookings call, or a /chat call sent
\* with a bearer token, with the 401 of an expired or invalid token, the
\* step that handles the response clears the token cookie and sends the
\* router to "/".
C13_RejectedTokenEndsSession ==
  [][ /\ \A id \in DOMAIN bookingsCalls :
           MyBookingsResolve(id, FALSE, Unauthorized)
             => (cookie' = NoCookie /\ location' = "/")
      /\ \A id \in DOMAIN calls :
           (SentWithToken(id) /\ FetchResolve(id, FALSE, Unauthorized))
             => (cookie' = NoCookie /\ location' = "/") ]_vars


\* A JSON value as the server sent it: the characters of a string, and for
\* any other value its JSON text, which stands here as one piece.
Verbatim(j) == IF j.type = "string" THEN j.value ELSE <<"JSON.stringify(detail)">>

\* The alert ends with the text d.
EndsWith(text, d) ==
  /\ Len(text) >= Len(d)
  /\ SubSeq(text, Len(text) - Len(d) + 1, Len(text)) = d

\* C14: the step that handles a non-2xx response to /login or /signup changes
\* neither the chat log nor the token cookie nor the page, and when the body
\* has a detail field it shows one alert that ends with that detail as the
\* server sent it.
C14_FailureShowsDetail ==
  [][ \A id \in DOMAIN authCalls, body \in AuthBodies :
        AuthResolve(id, FALSE, body)
          => /\ UNCHANGED <<messages, cookie, location>>
             /\ Get(body, "detail") # JUndefined
                  => /\ Len(alerts') = Len(alerts) + 1
                     /\ EndsWith(Last(alerts'), Verbatim(Get(body, "detail"))) ]_vars


\* C15: every /my-bookings request is issued with a token stored and carries
\* Authorization: Bearer <the value of the token cookie>, and so does every
\* /chat request issued while a token cookie is stored.
C15_TokenAttached ==
  [][ \A i \in (Len(requests) + 1)..Len(requests') :
        LET r == requests'[i]
        IN /\ r.path = "/my-bookings" => cookie # NoCookie
           /\ (r.path \in {"/my-bookings", "/chat"} /\ cookie # NoCookie)
                => /\ "authorization" \in DOMAIN r
                   /\ r.authorization = <<"Bearer ">> \o cookie[1] ]_vars


\* An element that puts something on the screen as part of the message: not
\* the sender in front of it, not a paragraph with nothing in it.
IsShown(e) ==
  /\ e.tag # "strong"
  /\ e.tag = "Typography" => Truthy(e.child)

Shown(content) == SelectSeq(content, IsShown)

\* The text of the message as a lead-in, if there is one.
LeadIn(msg) ==
  IF Truthy(Prop(msg, "text"))
  THEN <<[tag |-> "Typography", child |-> Prop(msg, "text")]>>
  ELSE <<>>

\* The four labels in their order, each with the value details has for it.
LabelledFields(details) ==
  << [tag |-> "field", label |-> "Service ID:", child |-> Get(details, "id")],
     [tag |-> "field", label |-> "Service:", child |-> Get(details, "service")],
     [tag |-> "field", label |-> "Technician:", child |-> Get(details, "technician")],
     [tag |-> "field", label |-> "Date/Time:", child |-> Get(details, "datetime")] >>

MessageTypes == {"text", "markdown", "booking_details", "error"}

\* A System message of type t with a text and a full details record.
Probe(t) ==
  [sender |-> "System", text |-> JString(<<"**ok**">>), messageType |-> JString(t),
   details |-> FullDetails]

\* The message with its type changed to t.
Retype(msg, t) == [msg EXCEPT !.messageType = JString(t)]

HasFields(content) == \E k \in 1..Len(content) : content[k].tag = "field"

\* C17: in every component with typed messages the renderer has four rules:
\* a text message of the log is rendered as literal text, a markdown message
\* through the markdown renderer, a booking_details message with its block
\* of labelled fields, an error message otherwise than the same message as
\* text; and no two message types are rendered alike.
C17_DistinctRenderingRules ==
  TypedMessages(variant)
    => /\ \A i \in 1..Len(messages) :
            LET msg == messages[i]
                out == renderChatMessage(variant, msg)
            IN /\ HasType(msg, "text") => Shown(out.content) = LeadIn(msg)
               /\ HasType(msg, "markdown")
                    => Shown(out.content)
                         = <<[tag |-> "ReactMarkdown", child |-> Prop(msg, "text")]>>
               /\ (HasType(msg, "booking_details") /\ Truthy(Prop(msg, "details")))
                    => HasFields(out.content)
               /\ HasType(msg, "error")
                    => out # renderChatMessage(variant, Retype(msg, "text"))
       /\ \A t1, t2 \in MessageTypes :
            t1 # t2 => renderChatMessage(variant, Probe(t1))
                         # renderChatMessage(variant, Probe(t2))

\* C18: every error message of the log is rendered in a style other than
\* that of the same System message as text, and without labelled fields,
\* also when it carries details.
C18_ErrorRenderedDistinctly ==
  \A i \in 1..Len(messages) :
    HasType(messages[i], "error")
      => /\ renderChatMessage(variant, messages[i]).style
             # renderChatMessage(variant, Retype(messages[i], "text")).style
         /\ ~HasFields(renderChatMessage(variant, messages[i]).content)


\* C19: the step that handles a failed /chat, /my-bookings, /login or /signup
\* call (the fetch rejects, the status is not 2xx, the body is not JSON or
\* not of the expected shape) appends a message to the log, shows an alert or
\* sends the router to another page, and leaves a page that renders.
C19_NoFailureIsFatal ==
  [][ ( \/ \E id \in DOMAIN calls : FetchReject(id)
        \/ \E id \in DOMAIN calls, ok \in BOOLEAN, body \in Bodies :
             FetchResolve(id, ok, body) /\ (~ok \/ Malformed(body))
        \/ \E id \in DOMAIN bookingsCalls : MyBookingsReject(id)
        \/ \E id \in DOMAIN bookingsCalls, ok \in BOOLEAN, body \in BookingsBodies :
             MyBookingsResolve(id, ok, body) /\ (~ok \/ body.type # "array")
        \/ \E id \in DOMAIN authCalls : AuthReject(id)
        \/ \E id \in DOMAIN authCalls, ok \in BOOLEAN, body \in AuthBodies :
             AuthResolve(id, ok, body)
               /\ (~ok \/ (authCalls[id].authMode = "login"
                              /\ body \in {NotJson, JNull})) )
      => /\ \/ Len(messages') > Len(messages)
            \/ Len(alerts') > Len(alerts)
            \/ location' # location
         /\ PageRenders' ]_vars


C21_Original ==
  [][ /\ \A pathname \in Pathnames, prefetch \in BOOLEAN :
           Request(pathname, prefetch)
             => /\ pathname = <<"/">>
                     => (event'.response = Redirect(<<"/dashboard">>)
                           <=> cookie # NoCookie)
                /\ ( /\ ~(cookie = NoCookie /\ StartsWithDashboard(pathname))
                     /\ ~(cookie # NoCookie /\ pathname = <<"/">>) )
                     => event'.response = PassOn
      /\ (AuthEffect /\ Truthy(safeGetToken(cookie)))
           => (location' = "/dashboard" /\ ~FormShown')
      /\ (~FormShown /\ FormShown') => ~Truthy(safeGetToken(cookie)) ]_vars

\* C21 as amended: a request for exactly "/" without the
\* x-middleware-prefetch header is answered with a redirect to /dashboard if
\* and only if it carries a token cookie, and one with the header is passed
\* on; a request that is neither for a /dashboard path without a token cookie
\* nor for "/" with one is passed on; the mount effect of the auth page with
\* a token sends the router to /dashboard and does not show the form, and
\* the form only ever appears by an effect that found no token.
C21_SessionSkipsAuthPage ==
  [][ /\ \A pathname \in Pathnames, prefetch \in BOOLEAN :
           Request(pathname, prefetch)
             => /\ pathname = <<"/">>
                     => IF prefetch
                        THEN event'.response = PassOn
                        ELSE /\ event'.response = Redirect(<<"/dashboard">>)
                                  <=> cookie # NoCookie
                             /\ cookie # NoCookie => location' = "/dashboard"
                /\ ( /\ ~(cookie = NoCookie /\ StartsWithDashboard(pathname))
                     /\ ~(cookie # NoCookie /\ pathname = <<"/">>) )
                     => event'.response = PassOn
      /\ (AuthEffect /\ Truthy(safeGetToken(cookie)))
           => (location' = "/dashboard" /\ ~FormShown')
      /\ (~FormShown /\ FormShown') => ~Truthy(safeGetToken(cookie)) ]_vars

\* A page load of "/" with a token cookie has been redirected and the
\* dashboard page is mounted.
C21_Witness ==
  /\ event.kind = "request"
  /\ event.pathname = <<"/">>
  /\ ~event.prefetch
  /\ event.response = Redirect(<<"/dashboard">>)
  /\ cookie = << <<"x">> >>
  /\ location = "/dashboard"
  /\ loading


\* A page is on the screen: the form, the dashboard surface or the 404 page.
Rendered == FormShown \/ Surface \/ location = "/404"

\* C22: navigation settles: unless the user and the other tabs keep loading
\* pages, logging out or changing the cookie for ever, the redirects of the
\* middleware and the pushes of the pages come to an end with a page on the
\* screen, from every state of the cookie and every start page.
C22_NavigationSettles == ([]<><<Disturb>>_vars) \/ <>[]Rendered


\* C23: after the step that handles a 2xx /login response with the
\* access_token t, safeGetToken on the cookie returns exactly t, whatever
\* characters t has, and the header built from it is Bearer t.
C23_TokenRoundTrip ==
  [][ \A id \in DOMAIN authCalls, t \in Tokens :
        ( /\ authCalls[id].authMode = "login"
          /\ AuthResolve(id, TRUE, JObject([access_token |-> JString(t)])) )
          => /\ safeGetToken(cookie') = JString(t)
             /\ ChatHeaders("Chat", safeGetToken(cookie'))
                  = [authorization |-> <<"Bearer ">> \o t] ]_vars


\* C24: given the same typing, submit, response and failure events, the
\* chat of Chat.tsx, the chat of the dashboard page of part_002 and the chat
\* of part_000 have issued the same /chat requests and built the same
\* message log; only their input fields may differ.
C24_SameStateMachine ==
  \A v, w \in DOMAIN copies :
    /\ copies[v].requests = copies[w].requests
    /\ copies[v].messages = copies[w].messages


\* C25: when every handleShowBookings run has completed, showBookings is
\* true exactly when the number of clicks so far is odd.
C25_FlipsOncePerClick ==
  bookingsCalls = EmptyObject => (showBookings <=> clicks % 2 = 1)


\* A step in which a /my-bookings fetch fails: the fetch rejects, the
\* status is not 2xx, or the click finds no token to send.
BookingsFetchFails ==
  \/ \E id \in DOMAIN bookingsCalls : MyBookingsReject(id)
  \/ \E id \in DOMAIN bookingsCalls, body \in BookingsBodies :
       MyBookingsResolve(id, FALSE, body)
  \/ ShowBookingsClick /\ ~Truthy(safeGetToken(cookie))

\* C26: a step in which the /my-bookings fetch fails leaves bookings as it
\* was and does not make the bookings panel visible.
C26_FailedFetchChangesNothing ==
  [][ BookingsFetchFails
        => /\ bookings' = bookings
           /\ ~(~showBookings /\ showBookings') ]_vars


\* The bodies with which handleSend succeeds: a reply under "response".
SuccessBodies == { JObject([response |-> JObject(r)]) : r \in Replies }

\* C27: the chat of part_000 empties the input in the step that issues the
\* request (which carries the text typed) and leaves it alone when the
\* request succeeds; every other variant leaves the input alone at submit
\* and empties it when the request settles, by a response of any kind or by
\* a failure.
C27_InputClearing ==
  [][ /\ (Submit /\ Trim(input) # <<>>)
          => /\ Len(requests') = Len(requests) + 1
             /\ requests'[Len(requests')].message = input
             /\ input' = IF variant = "ChatMarkdown" THEN <<>> ELSE input
      /\ IF variant = "ChatMarkdown"
         THEN \A id \in DOMAIN calls, ok \in BOOLEAN, body \in SuccessBodies :
                FetchResolve(id, ok, body) => input' = input
         ELSE \A id \in DOMAIN calls :
                \/ FetchReject(id)
                \/ \E ok \in BOOLEAN, body \in Bodies : FetchResolve(id, ok, body)
                => input' = <<>> ]_vars

\* The chat of part_000 has answered a request while the user had typed
\* the next text: the text is still in the field.
C27_Witness ==
  /\ variant = "ChatMarkdown"
  /\ event.kind = "response"
  /\ Last(messages) = [sender |-> "System", text |-> JString(<<"ok">>),
                       messageType |-> JString("text")]
  /\ Len(messages) = 3
  /\ input = <<"a">>


\* C28: the answer to a request (pass-through, redirect to "/" or redirect
\* to "/dashboard") is the response the middleware of part_003 returns to
\* the same request: same pathname, same token cookie, same
\* x-middleware-prefetch header.
C28_MiddlewaresEquivalent ==
  event.kind = "request"
    => event.response
         = ServePart003(event.prefetch, cookie, event.pathname).response

\* A request for "/" with a token cookie of empty value has been answered
\* with the redirect to the dashboard.
C28_Witness ==
  /\ event.kind = "request"
  /\ ~event.prefetch
  /\ event.pathname = <<"/">>
  /\ cookie = << <<>> >>
  /\ event.response = Redirect(<<"/dashboard">>)
  /\ ServePart003(FALSE, cookie, <<"/">>).log # <<>>

=============================================================================
